---- MODULE Spec2Model ----
(***************************************************************************)
(* Model of the allocators of the sos repository:                          *)
(*   allocator/src/bump.rs            the bump allocator                   *)
(*   allocator/src/linked_list.rs     the linked-list allocator            *)
(*   linked_list_allocator/src/lib.rs the stand-alone linked-list allocator*)
(*   ptr-ext/src/lib.rs               PtrExt::try_align_up                 *)
(* Addresses and sizes are machine words of WordBits bits; the allocation  *)
(* counter of the bump allocator counts up to U64Max.  The free            *)
(* list of the linked-list allocators lives in the donated memory itself:  *)
(* mem maps the address of a word to its value, a Node is the two words    *)
(* (size, next) at its address, and the null pointer 0 is None.            *)
(***************************************************************************)
EXTENDS Integers, Naturals, Sequences, FiniteSets, TLC

\* ------------------------------------------------------------------------
\* Widths.  usize and u64 are scaled down so that overflow is reachable.
WordBits == 8

RECURSIVE Pow2(_)
Pow2(n) == IF n = 0 THEN 1 ELSE 2 * Pow2(n - 1)

UsizeMax == Pow2(WordBits) - 1
IsizeMax == Pow2(WordBits - 1) - 1

\* u64::MAX of the allocation counter, scaled down.
U64Max == 3

\* mem::size_of::<Node>() and mem::align_of::<Node>(): a usize and a pointer.
NodeSize == 16
NodeAlign == 8
WordSize == 8

\* ------------------------------------------------------------------------
\* Option / panic outcomes of the word-valued helpers.
Some(v) == [tag |-> "Some", val |-> v]
None == [tag |-> "None", val |-> 0]
Panic == [tag |-> "Panic", val |-> 0]

\* Bitwise operators on words, bit by bit.
RECURSIVE BitOr(_, _, _)
BitOr(a, b, n) ==
    IF n = 0 THEN 0
    ELSE (IF a % 2 = 1 \/ b % 2 = 1 THEN 1 ELSE 0) + 2 * BitOr(a \div 2, b \div 2, n - 1)

RECURSIVE BitAnd(_, _, _)
BitAnd(a, b, n) ==
    IF n = 0 THEN 0
    ELSE (IF a % 2 = 1 /\ b % 2 = 1 THEN 1 ELSE 0) + 2 * BitAnd(a \div 2, b \div 2, n - 1)

BitNot(a) == UsizeMax - a

RECURSIVE CountOnes(_, _)
CountOnes(a, n) == IF n = 0 THEN 0 ELSE (a % 2) + CountOnes(a \div 2, n - 1)

is_power_of_two(a) == CountOnes(a, WordBits) = 1

checked_add(a, b) == IF a + b > UsizeMax THEN None ELSE Some(a + b)

wrapping_add(a, b) == (a + b) % (UsizeMax + 1)

\* ------------------------------------------------------------------------
\* ptr-ext: PtrExt::try_align_up for *mut u8.
try_align_up_Unaligned(addr, align) ==
    IF ~is_power_of_two(align) THEN None ELSE Some(addr)

try_align_up_Wrapping(addr, align) ==
    IF ~is_power_of_two(align) THEN None
    ELSE IF addr % align = 0 THEN Some(addr)
    ELSE Some(wrapping_add(BitOr(addr, align - 1, WordBits), 1))

try_align_up(addr, align) ==
    IF ~is_power_of_two(align) THEN None
    ELSE IF addr % align = 0 THEN Some(addr)
    ELSE checked_add(BitOr(addr, align - 1, WordBits), 1)

\* ------------------------------------------------------------------------
\* core::alloc::Layout as the allocators use it.
Layout(size, align) == [size |-> size, align |-> align]
LayoutErr == [tag |-> "Err", val |-> Layout(0, 1)]
LayoutOk(l) == [tag |-> "Ok", val |-> l]

\* Layout::from_size_align: align a power of two, and size rounded up to
\* align not above isize::MAX.
from_size_align(size, align) ==
    IF ~is_power_of_two(align) THEN LayoutErr
    ELSE IF size > IsizeMax - (align - 1) THEN LayoutErr
    ELSE LayoutOk(Layout(size, align))

\* Layout::align_to
align_to(l, align) ==
    from_size_align(l.size, IF l.align > align THEN l.align ELSE align)

\* Layout::pad_to_align
pad_to_align(l) ==
    Layout(BitAnd(l.size + l.align - 1, BitNot(l.align - 1), WordBits), l.align)

\* ------------------------------------------------------------------------
\* Inputs: the layouts callers ask for and the regions they donate.
HighAlign == Pow2(WordBits - 1)

\* Layouts asked of the bump allocator: zero-sized, byte-aligned, the u64 of
\* the test, and the largest size and alignment a Layout allows.
BumpLayouts ==
    { Layout(0, 1), Layout(0, 8), Layout(5, 1), Layout(8, 8),
      Layout(IsizeMax, 1), Layout(8, HighAlign) }

\* Layouts asked of the linked-list allocators: smaller than a Node, larger
\* than a Node, more than any region, one whose alignment leaves a head gap,
\* and the largest ones a Layout allows.
ListLayouts ==
    { Layout(5, 1), Layout(24, 8), Layout(48, 8), Layout(16, 32),
      Layout(IsizeMax, 1), Layout(0, HighAlign) }

Range(base, len) == [base |-> base, len |-> len]
NoRange == Range(0, 0)

\* The last region lies in the top words of the address space: an address
\* in it plus an alignment above NodeAlign exceeds usize::MAX.
TopBase == UsizeMax - 23

\* Regions handed to bump::Allocator::new (any alignment of the base).
BumpRegions == { Range(16, 16), Range(TopBase + 1, 22) }

\* Pairwise-disjoint regions handed to add_free_region: bases aligned to
\* NodeAlign, lengths at least NodeSize, two of them contiguous, one of a
\* length that is not a multiple of 8, one of exactly one Node.
Regions == { Range(24, 40), Range(64, 39), Range(TopBase, 16) }

WordAddrs == { a \in 0..UsizeMax : a % WordSize = 0 }
MaxNodes == Cardinality(WordAddrs)

\* ------------------------------------------------------------------------
\* State.
VARIABLES
    kind,             \* which allocator this instance is
    overflow_checks,  \* the build: TRUE panics on integer overflow, FALSE wraps
    region,           \* bump: Allocator.region
    tip,              \* bump: Allocator.tip
    allocations,      \* bump: Allocator.allocations
    head,             \* linked list: head.next (0 is None)
    mem,              \* linked list: the words of memory holding the Nodes
    donated,          \* linked list: regions the caller has donated
    live,             \* allocations handed out and not yet returned
    status,           \* "ok", or "panicked" once an assertion/expect/overflow aborted
    last,             \* the last operation and its outcome
    freed,            \* linked list: layouts deallocated since the last donation or successful alloc
    call              \* ptr-ext: a call of try_align_up, its arguments and its result

vars == <<kind, overflow_checks, region, tip, allocations, head, mem, donated,
          live, status, last, freed, call>>

\* An arithmetic operation written without checked_/wrapping_: it panics in
\* a build with overflow checks and wraps otherwise.
unchecked_add(a, b) ==
    IF a + b > UsizeMax
    THEN (IF overflow_checks THEN Panic ELSE Some((a + b) % (UsizeMax + 1)))
    ELSE Some(a + b)

unchecked_sub(a, b) ==
    IF a < b
    THEN (IF overflow_checks THEN Panic ELSE Some((a - b) % (UsizeMax + 1)))
    ELSE Some(a - b)

\* ------------------------------------------------------------------------
\* allocator/src/bump.rs
BumpResult(tag, t, n, r) == [tag |-> tag, tip |-> t, allocations |-> n, alloc |-> r]

Bump_alloc_NoBoundCheck(reg, t, n, layout) ==
    LET alloc_start == try_align_up(t, layout.align) IN
    IF alloc_start.tag = "None" THEN BumpResult("None", t, n, NoRange) ELSE
    LET alloc_end == checked_add(alloc_start.val, layout.size) IN
    IF alloc_end.tag = "None" THEN BumpResult("None", t, n, NoRange) ELSE
    IF n + 1 > U64Max THEN BumpResult("None", t, n, NoRange) ELSE
    BumpResult("Some", alloc_end.val, n + 1, Range(alloc_start.val, layout.size))

Bump_alloc_ZeroUncounted(reg, t, n, layout) ==
    LET alloc_start == try_align_up(t, layout.align) IN
    IF alloc_start.tag = "None" THEN BumpResult("None", t, n, NoRange) ELSE
    LET alloc_end == checked_add(alloc_start.val, layout.size) IN
    IF alloc_end.tag = "None" THEN BumpResult("None", t, n, NoRange) ELSE
    IF alloc_end.val > reg.base + reg.len THEN BumpResult("None", t, n, NoRange) ELSE
    IF n + 1 > U64Max THEN BumpResult("None", t, n, NoRange) ELSE
    IF alloc_start.val = 0 THEN BumpResult("None", alloc_end.val, n + 1, NoRange) ELSE
    BumpResult("Some", alloc_end.val, IF layout.size = 0 THEN n ELSE n + 1,
               Range(alloc_start.val, layout.size))

Bump_alloc_TipFirst(reg, t, n, layout) ==
    LET alloc_start == try_align_up(t, layout.align) IN
    IF alloc_start.tag = "None" THEN BumpResult("None", t, n, NoRange) ELSE
    LET alloc_end == checked_add(alloc_start.val, layout.size) IN
    IF alloc_end.tag = "None" THEN BumpResult("None", t, n, NoRange) ELSE
    IF alloc_end.val > reg.base + reg.len THEN BumpResult("None", t, n, NoRange) ELSE
    IF n + 1 > U64Max THEN BumpResult("None", alloc_end.val, n, NoRange) ELSE
    BumpResult("Some", alloc_end.val, n + 1, Range(alloc_start.val, layout.size))

Bump_alloc(reg, t, n, layout) ==
    LET alloc_start == try_align_up(t, layout.align) IN
    IF alloc_start.tag = "None" THEN BumpResult("None", t, n, NoRange) ELSE
    LET alloc_end == checked_add(alloc_start.val, layout.size) IN
    IF alloc_end.tag = "None" THEN BumpResult("None", t, n, NoRange) ELSE
    IF alloc_end.val > reg.base + reg.len THEN BumpResult("None", t, n, NoRange) ELSE
    IF n + 1 > U64Max THEN BumpResult("None", t, n, NoRange) ELSE
    \* NonNull::new of the slice pointer
    IF alloc_start.val = 0 THEN BumpResult("None", alloc_end.val, n + 1, NoRange) ELSE
    BumpResult("Some", alloc_end.val, n + 1, Range(alloc_start.val, layout.size))

Bump_dealloc_AlwaysReset(reg, t, n) ==
    IF n = 0 THEN
        (IF overflow_checks THEN BumpResult("Panic", t, n, NoRange)
         ELSE BumpResult("Ok", t, U64Max, NoRange))
    ELSE BumpResult("Ok", reg.base, n - 1, NoRange)

Bump_dealloc_NeverReset(reg, t, n) ==
    IF n = 0 THEN
        (IF overflow_checks THEN BumpResult("Panic", t, n, NoRange)
         ELSE BumpResult("Ok", t, U64Max, NoRange))
    ELSE BumpResult("Ok", t, n - 1, NoRange)

Bump_dealloc(reg, t, n) ==
    IF n = 0 THEN
        (IF overflow_checks THEN BumpResult("Panic", t, n, NoRange)
         ELSE BumpResult("Ok", t, U64Max, NoRange))
    ELSE IF n - 1 = 0 THEN BumpResult("Ok", reg.base, 0, NoRange)
    ELSE BumpResult("Ok", t, n - 1, NoRange)

\* ------------------------------------------------------------------------
\* The in-place Node { size, next } at address a: size in the word at a, next
\* in the word at a + WordSize.  Rd is the read of a word.
Rd(m, a) == IF a \in DOMAIN m THEN m[a] ELSE 0
Wr(m, a, v) == IF a \in DOMAIN m THEN [m EXCEPT ![a] = v] ELSE m

\* The sentinel self.head is not in donated memory.
HeadPtr == -1
NextOf(h, m, curr) == IF curr = HeadPtr THEN h ELSE Rd(m, curr + WordSize)

ListResult(tag, h, m, node, r) ==
    [tag |-> tag, head |-> h, mem |-> m, node |-> node, alloc |-> r]

OptRange(tag, r) == [tag |-> tag, val |-> r]

\* ------------------------------------------------------------------------
\* allocator/src/linked_list.rs
LinkedList_add_free_region_SelfLink(h, m, reg) ==
    IF reg.base % NodeAlign # 0 THEN ListResult("Assert", h, m, 0, NoRange) ELSE
    IF reg.len < NodeSize THEN ListResult("Assert", h, m, 0, NoRange) ELSE
    ListResult("Ok", reg.base,
               Wr(Wr(m, reg.base, reg.len), reg.base + WordSize, reg.base), reg.base, NoRange)

LinkedList_add_free_region_AfterFirst(h, m, reg) ==
    IF reg.base % NodeAlign # 0 THEN ListResult("Assert", h, m, 0, NoRange) ELSE
    IF reg.len < NodeSize THEN ListResult("Assert", h, m, 0, NoRange) ELSE
    IF h # 0
    THEN ListResult("Ok", h,
                    Wr(Wr(Wr(m, reg.base, reg.len), reg.base + WordSize, Rd(m, h + WordSize)),
                       h + WordSize, reg.base), reg.base, NoRange)
    ELSE ListResult("Ok", reg.base,
                    Wr(Wr(m, reg.base, reg.len), reg.base + WordSize, h), reg.base, NoRange)

LinkedList_add_free_region_Coalesce(h, m, reg) ==
    IF reg.base % NodeAlign # 0 THEN ListResult("Assert", h, m, 0, NoRange) ELSE
    IF reg.len < NodeSize THEN ListResult("Assert", h, m, 0, NoRange) ELSE
    IF h # 0 /\ reg.base + reg.len = h
    THEN ListResult("Ok", reg.base,
                    Wr(Wr(m, reg.base, reg.len + Rd(m, h)), reg.base + WordSize,
                       Rd(m, h + WordSize)), reg.base, NoRange)
    ELSE ListResult("Ok", reg.base,
                    Wr(Wr(m, reg.base, reg.len), reg.base + WordSize, h), reg.base, NoRange)

LinkedList_add_free_region(h, m, reg) ==
    IF reg.base % NodeAlign # 0 THEN ListResult("Assert", h, m, 0, NoRange) ELSE
    IF reg.len < NodeSize THEN ListResult("Assert", h, m, 0, NoRange) ELSE
    ListResult("Ok", reg.base,
               Wr(Wr(m, reg.base, reg.len), reg.base + WordSize, h), reg.base, NoRange)

LinkedList_Node_end(m, this) == unchecked_add(this, Rd(m, this))

LinkedList_alloc_from_region_NoSliverCheck(m, this, layout) ==
    LET alloc_start == try_align_up(this, layout.align) IN
    IF alloc_start.tag = "None" THEN OptRange("None", NoRange) ELSE
    LET alloc_end == checked_add(alloc_start.val, layout.size) IN
    IF alloc_end.tag = "None" THEN OptRange("None", NoRange) ELSE
    LET end == LinkedList_Node_end(m, this) IN
    IF end.tag = "Panic" THEN OptRange("Panic", NoRange) ELSE
    IF alloc_end.val > end.val THEN OptRange("None", NoRange) ELSE
    IF alloc_start.val = 0 THEN OptRange("None", NoRange) ELSE
    OptRange("Some", Range(alloc_start.val, layout.size))

LinkedList_alloc_from_region(m, this, layout) ==
    LET alloc_start == try_align_up(this, layout.align) IN
    IF alloc_start.tag = "None" THEN OptRange("None", NoRange) ELSE
    LET alloc_end == checked_add(alloc_start.val, layout.size) IN
    IF alloc_end.tag = "None" THEN OptRange("None", NoRange) ELSE
    LET end == LinkedList_Node_end(m, this) IN
    IF end.tag = "Panic" THEN OptRange("Panic", NoRange) ELSE
    IF alloc_end.val > end.val THEN OptRange("None", NoRange) ELSE
    LET excess_size == unchecked_sub(end.val, alloc_end.val) IN
    IF excess_size.tag = "Panic" THEN OptRange("Panic", NoRange) ELSE
    IF 0 < excess_size.val /\ excess_size.val < NodeSize THEN OptRange("None", NoRange) ELSE
    \* NonNull::new of the slice pointer
    IF alloc_start.val = 0 THEN OptRange("None", NoRange) ELSE
    OptRange("Some", Range(alloc_start.val, layout.size))

\* The while-let loop of find_region from curr on; fuel bounds the walk, and
\* a walk that outlasts it never returns.
RECURSIVE LinkedList_find_region_loop(_, _, _, _, _)
LinkedList_find_region_loop(h, m, curr, layout, fuel) ==
    LET reg == NextOf(h, m, curr) IN
    IF reg = 0 THEN ListResult("None", h, m, 0, NoRange) ELSE
    IF fuel = 0 THEN ListResult("Diverge", h, m, 0, NoRange) ELSE
    LET alloc == LinkedList_alloc_from_region(m, reg, layout) IN
    IF alloc.tag = "Panic" THEN ListResult("Panic", h, m, 0, NoRange) ELSE
    IF alloc.tag = "Some" THEN
        LET next == Rd(m, reg + WordSize)
            m1 == Wr(m, reg + WordSize, 0)
        IN IF curr = HeadPtr
           THEN ListResult("Some", next, m1, reg, alloc.val)
           ELSE ListResult("Some", h, Wr(m1, curr + WordSize, next), reg, alloc.val)
    ELSE LinkedList_find_region_loop(h, m, reg, layout, fuel - 1)

LinkedList_find_region_SkipFirst(h, m, layout) ==
    LinkedList_find_region_loop(h, m, IF h = 0 THEN HeadPtr ELSE h, layout, MaxNodes)

LinkedList_find_region(h, m, layout) ==
    LinkedList_find_region_loop(h, m, HeadPtr, layout, MaxNodes)

LinkedList_adjust_NoMinSize(layout) ==
    LET a == align_to(layout, NodeAlign) IN
    IF a.tag = "Err" THEN [tag |-> "Panic", val |-> layout] ELSE
    [tag |-> "Ok", val |-> pad_to_align(a.val)]

LinkedList_adjust(layout) ==
    LET a == align_to(layout, NodeAlign) IN
    IF a.tag = "Err" THEN [tag |-> "Panic", val |-> layout] ELSE
    LET p == pad_to_align(a.val)
        r == from_size_align(IF p.size > NodeSize THEN p.size ELSE NodeSize, p.align)
    IN IF r.tag = "Err" THEN [tag |-> "Panic", val |-> layout]
       ELSE [tag |-> "Ok", val |-> r.val]

LinkedList_alloc_NoTail(h, m, layout0) ==
    LET layout == LinkedList_adjust(layout0) IN
    IF layout.tag = "Panic" THEN ListResult("Panic", h, m, 0, NoRange) ELSE
    LinkedList_find_region(h, m, layout.val)

LinkedList_alloc_TailAtStart(h, m, layout0) ==
    LET layout == LinkedList_adjust(layout0) IN
    IF layout.tag = "Panic" THEN ListResult("Panic", h, m, 0, NoRange) ELSE
    LET f == LinkedList_find_region(h, m, layout.val) IN
    IF f.tag # "Some" THEN f ELSE
    LET alloc_end == unchecked_add(f.alloc.base, f.alloc.len)
        end == LinkedList_Node_end(f.mem, f.node)
    IN
    IF alloc_end.tag = "Panic" \/ end.tag = "Panic"
    THEN ListResult("Panic", f.head, f.mem, f.node, NoRange) ELSE
    LET excess_size == unchecked_sub(end.val, alloc_end.val) IN
    IF excess_size.tag = "Panic" THEN ListResult("Panic", f.head, f.mem, f.node, NoRange) ELSE
    IF excess_size.val > 0 THEN
        LET a == LinkedList_add_free_region(f.head, f.mem,
                                            Range(f.alloc.base, excess_size.val)) IN
        IF a.tag # "Ok" THEN ListResult(a.tag, f.head, f.mem, f.node, NoRange)
        ELSE ListResult("Some", a.head, a.mem, f.node, f.alloc)
    ELSE f

LinkedList_alloc(h, m, layout0) ==
    LET layout == LinkedList_adjust(layout0) IN
    IF layout.tag = "Panic" THEN ListResult("Panic", h, m, 0, NoRange) ELSE
    LET f == LinkedList_find_region(h, m, layout.val) IN
    IF f.tag # "Some" THEN f ELSE
    LET alloc_end == unchecked_add(f.alloc.base, f.alloc.len)
        end == LinkedList_Node_end(f.mem, f.node)
    IN
    IF alloc_end.tag = "Panic" \/ end.tag = "Panic"
    THEN ListResult("Panic", f.head, f.mem, f.node, NoRange) ELSE
    LET excess_size == unchecked_sub(end.val, alloc_end.val) IN
    IF excess_size.tag = "Panic" THEN ListResult("Panic", f.head, f.mem, f.node, NoRange) ELSE
    IF excess_size.val > 0 THEN
        LET a == LinkedList_add_free_region(f.head, f.mem,
                                            Range(alloc_end.val, excess_size.val)) IN
        IF a.tag # "Ok" THEN ListResult(a.tag, f.head, f.mem, f.node, NoRange)
        ELSE ListResult("Some", a.head, a.mem, f.node, f.alloc)
    ELSE f

LinkedList_dealloc_OriginalSize(h, m, ptr, layout0) ==
    LET layout == LinkedList_adjust(layout0) IN
    IF layout.tag = "Panic" THEN ListResult("Panic", h, m, 0, NoRange) ELSE
    IF ptr = 0 THEN ListResult("Panic", h, m, 0, NoRange) ELSE
    LinkedList_add_free_region(h, m, Range(ptr, layout0.size))

LinkedList_dealloc(h, m, ptr, layout0) ==
    LET layout == LinkedList_adjust(layout0) IN
    IF layout.tag = "Panic" THEN ListResult("Panic", h, m, 0, NoRange) ELSE
    \* NonNull::new(..).unwrap()
    IF ptr = 0 THEN ListResult("Panic", h, m, 0, NoRange) ELSE
    LinkedList_add_free_region(h, m, Range(ptr, layout.val.size))

\* ------------------------------------------------------------------------
\* linked_list_allocator/src/lib.rs
LLA_add_free_region(h, m, reg) ==
    IF reg.base % NodeAlign # 0 THEN ListResult("Assert", h, m, 0, NoRange) ELSE
    IF reg.len < NodeSize THEN ListResult("Assert", h, m, 0, NoRange) ELSE
    \* NonNull::new(..).unwrap()
    IF reg.base = 0 THEN ListResult("Panic", 0, m, 0, NoRange) ELSE
    ListResult("Ok", reg.base,
               Wr(Wr(m, reg.base, reg.len), reg.base + WordSize, h), reg.base, NoRange)

LLA_Node_start(this) == this

LLA_Node_end(m, this) == wrapping_add(this, Rd(m, this))

\* align_up: (addr + align - 1) & !(align - 1), after the assertion.
align_up(addr, align) ==
    IF ~is_power_of_two(align) THEN Panic ELSE
    LET t1 == unchecked_add(addr, align) IN
    IF t1.tag = "Panic" THEN Panic ELSE
    LET t2 == unchecked_sub(t1.val, 1) IN
    IF t2.tag = "Panic" THEN Panic ELSE
    Some(BitAnd(t2.val, BitNot(align - 1), WordBits))

LLA_alloc_from_region(m, this, layout) ==
    LET alloc_start == align_up(LLA_Node_start(this), layout.align) IN
    IF alloc_start.tag = "Panic" THEN OptRange("Panic", NoRange) ELSE
    LET alloc_end == checked_add(alloc_start.val, layout.size) IN
    IF alloc_end.tag = "None" THEN OptRange("None", NoRange) ELSE
    LET end == LLA_Node_end(m, this) IN
    IF alloc_end.val > end THEN OptRange("None", NoRange) ELSE
    LET excess_size == unchecked_sub(end, alloc_end.val) IN
    IF excess_size.tag = "Panic" THEN OptRange("Panic", NoRange) ELSE
    IF 0 < excess_size.val /\ excess_size.val < NodeSize THEN OptRange("None", NoRange) ELSE
    \* NonNull::new of the slice pointer
    IF alloc_start.val = 0 THEN OptRange("None", NoRange) ELSE
    OptRange("Some", Range(alloc_start.val, layout.size))

RECURSIVE LLA_find_region_loop(_, _, _, _, _)
LLA_find_region_loop(h, m, curr, layout, fuel) ==
    LET reg == NextOf(h, m, curr) IN
    IF reg = 0 THEN ListResult("None", h, m, 0, NoRange) ELSE
    IF fuel = 0 THEN ListResult("Diverge", h, m, 0, NoRange) ELSE
    LET alloc == LLA_alloc_from_region(m, reg, layout) IN
    IF alloc.tag = "Panic" THEN ListResult("Panic", h, m, 0, NoRange) ELSE
    IF alloc.tag = "Some" THEN
        LET next == Rd(m, reg + WordSize)
            m1 == Wr(m, reg + WordSize, 0)
        IN IF curr = HeadPtr
           THEN ListResult("Some", next, m1, reg, alloc.val)
           ELSE ListResult("Some", h, Wr(m1, curr + WordSize, next), reg, alloc.val)
    ELSE LLA_find_region_loop(h, m, reg, layout, fuel - 1)

LLA_find_region(h, m, layout) ==
    LLA_find_region_loop(h, m, HeadPtr, layout, MaxNodes)

LLA_adjust(layout) ==
    LET a == align_to(layout, NodeAlign) IN
    IF a.tag = "Err" THEN [tag |-> "Panic", val |-> layout] ELSE
    LET p == pad_to_align(a.val)
        r == from_size_align(IF p.size > NodeSize THEN p.size ELSE NodeSize, p.align)
    IN IF r.tag = "Err" THEN [tag |-> "Panic", val |-> layout]
       ELSE [tag |-> "Ok", val |-> r.val]

LLA_alloc(h, m, layout0) ==
    LET layout == LLA_adjust(layout0) IN
    IF layout.tag = "Panic" THEN ListResult("Panic", h, m, 0, NoRange) ELSE
    LET f == LLA_find_region(h, m, layout.val) IN
    IF f.tag # "Some" THEN f ELSE
    LET alloc_end == wrapping_add(f.alloc.base, f.alloc.len)
        excess_size == unchecked_sub(LLA_Node_end(f.mem, f.node), alloc_end)
    IN
    IF excess_size.tag = "Panic" THEN ListResult("Panic", f.head, f.mem, f.node, NoRange) ELSE
    IF excess_size.val > 0 THEN
        LET a == LLA_add_free_region(f.head, f.mem, Range(alloc_end, excess_size.val)) IN
        IF a.tag # "Ok" THEN ListResult(a.tag, a.head, f.mem, f.node, NoRange)
        ELSE ListResult("Some", a.head, a.mem, f.node, f.alloc)
    ELSE f

LLA_dealloc(h, m, ptr, layout0) ==
    LET layout == LLA_adjust(layout0) IN
    IF layout.tag = "Panic" THEN ListResult("Panic", h, m, 0, NoRange) ELSE
    LLA_add_free_region(h, m, Range(ptr, layout.val.size))

\* ------------------------------------------------------------------------
\* The free list as the chain of Nodes reachable from head.next, and the
\* allocations handed out.
RECURSIVE Chain(_, _, _)
Chain(m, p, fuel) ==
    IF p = 0 \/ fuel = 0 THEN << >>
    ELSE << Range(p, Rd(m, p)) >> \o Chain(m, Rd(m, p + WordSize), fuel - 1)

FreeList == Chain(mem, head, MaxNodes + 1)

RECURSIVE SumLen(_)
SumLen(s) == IF s = << >> THEN 0 ELSE Head(s).len + SumLen(Tail(s))

FreeBytes(h, m) == SumLen(Chain(m, h, MaxNodes + 1))

Overlap(a, b) == a.len > 0 /\ b.len > 0 /\ a.base < b.base + b.len /\ b.base < a.base + a.len

Allocation(r, layout) == [base |-> r.base, len |-> r.len, layout |-> layout]

RemoveAt(s, i) == [j \in 1..(Len(s) - 1) |-> IF j < i THEN s[j] ELSE s[j + 1]]

\* live is kept in address order, the order of the handing out being of no
\* consequence to the allocator: a goes in before the first entry above it.
Before(a, b) ==
    \/ a.base < b.base
    \/ a.base = b.base /\ a.layout.size < b.layout.size
    \/ a.base = b.base /\ a.layout.size = b.layout.size /\ a.layout.align <= b.layout.align

Insert(s, a) ==
    LET k == Cardinality({j \in 1..Len(s) : Before(s[j], a)}) IN
    [j \in 1..(Len(s) + 1) |-> IF j <= k THEN s[j] ELSE IF j = k + 1 THEN a ELSE s[j - 1]]

\* The caller owns the bytes of a range it was handed and overwrites them.
Overwrite(m, r) ==
    [a \in DOMAIN m |-> IF r.base < a + WordSize /\ a < r.base + r.len THEN 0 ELSE m[a]]

\* The record of the last operation: what was asked, what came back, the
\* bytes between the tip (bump) or the base of the entry (linked list) and
\* the aligned start, and for the linked list the free bytes before the
\* operation and the number of list entries the search passed over.
Last(op, layout, tag, r, free, gap, rt) ==
    [op |-> op, layout |-> layout, tag |-> tag, range |-> r,
     freeBefore |-> free, gap |-> gap, roundtrip |-> rt, skipped |-> 0]

\* The entries of the list h that come before the node at address node.
Skipped(h, m, node) ==
    LET c == Chain(m, h, MaxNodes + 1) IN
    Cardinality({i \in 1..Len(c) : \A j \in 1..i : c[j].base # node})

\* "Panic" is an expect/unwrap/overflow panic, "Assert" a failed assert! of
\* add_free_region, "Diverge" a search that does not return.
StatusOf(tag) ==
    IF tag \in {"Panic", "Assert"} THEN "panicked"
    ELSE IF tag = "Diverge" THEN "diverged" ELSE "ok"

\* A call of try_align_up: pc is "idle" (no call), "called" or "returned".
Call(pc, addr, align, ret) == [pc |-> pc, addr |-> addr, align |-> align, ret |-> ret]
NoCall == Call("idle", 0, 1, None)

\* ------------------------------------------------------------------------
\* The state after construction: bump::Allocator::new(region),
\* linked_list::Allocator::new() or LinkedListAllocator::new().
Init ==
    /\ kind \in {"bump", "linked_list", "linked_list_allocator"}
    /\ overflow_checks \in BOOLEAN
    /\ region \in (IF kind = "bump" THEN BumpRegions ELSE {NoRange})
    /\ tip = region.base
    /\ allocations = 0
    /\ head = 0
    /\ mem = [a \in WordAddrs |-> 0]
    /\ donated = {}
    /\ live = << >>
    /\ status = "ok"
    /\ last = Last("new", Layout(0, 1), "Ok", NoRange, 0, 0, FALSE)
    /\ freed = {}
    /\ call = NoCall

\* bump: alloc(layout)
BumpAlloc ==
    /\ kind = "bump" /\ status = "ok"
    /\ \E layout \in BumpLayouts :
        \E r \in {Bump_alloc(region, tip, allocations, layout)} :
        /\ tip' = r.tip
        /\ allocations' = r.allocations
        /\ live' = IF r.tag = "Some" THEN Insert(live, Allocation(r.alloc, layout)) ELSE live
        /\ last' = Last("alloc", layout, r.tag, r.alloc, 0,
                        IF r.tag = "Some" THEN r.alloc.base - tip ELSE 0, FALSE)
    /\ UNCHANGED <<kind, overflow_checks, region, head, mem, donated, status, freed, call>>

\* bump: dealloc(ptr, layout) of a live allocation
BumpDealloc ==
    /\ kind = "bump" /\ status = "ok"
    /\ \E i \in 1..Len(live) :
        \E r \in {Bump_dealloc(region, tip, allocations)} :
        /\ tip' = r.tip
        /\ allocations' = r.allocations
        /\ live' = RemoveAt(live, i)
        /\ status' = StatusOf(r.tag)
        /\ last' = Last("dealloc", live[i].layout, r.tag,
                        Range(live[i].base, live[i].len), 0, 0, FALSE)
    /\ UNCHANGED <<kind, overflow_checks, region, head, mem, donated, freed, call>>

\* linked_list: the caller donates a region with add_free_region
AddFreeRegion ==
    /\ kind = "linked_list" /\ status = "ok"
    /\ \E reg \in Regions \ donated :
        \E r \in {LinkedList_add_free_region(head, mem, reg)} :
        /\ head' = r.head
        /\ mem' = r.mem
        /\ donated' = donated \cup {reg}
        /\ status' = StatusOf(r.tag)
        /\ last' = Last("add_free_region", Layout(0, 1), r.tag, reg, 0, 0, FALSE)
        /\ freed' = {}
    /\ UNCHANGED <<kind, overflow_checks, region, tip, allocations, live, call>>

\* linked_list: alloc(layout)
LinkedListAlloc ==
    /\ kind = "linked_list" /\ status = "ok"
    /\ \E layout \in ListLayouts :
        \E r \in {LinkedList_alloc(head, mem, layout)} :
        /\ head' = r.head
        /\ mem' = IF r.tag = "Some" THEN Overwrite(r.mem, r.alloc) ELSE r.mem
        /\ live' = IF r.tag = "Some" THEN Insert(live, Allocation(r.alloc, layout)) ELSE live
        /\ status' = StatusOf(r.tag)
        /\ last' = [Last("alloc", layout, r.tag, r.alloc, FreeBytes(head, mem),
                         IF r.tag = "Some" THEN r.alloc.base - r.node ELSE 0, FALSE)
                    EXCEPT !.skipped = IF r.tag = "Some" THEN Skipped(head, mem, r.node) ELSE 0]
        /\ freed' = IF r.tag = "Some" THEN {} ELSE freed
    /\ UNCHANGED <<kind, overflow_checks, region, tip, allocations, donated, call>>

\* linked_list: dealloc(ptr, layout) of a live allocation with its layout
LinkedListDealloc ==
    /\ kind = "linked_list" /\ status = "ok"
    /\ \E i \in 1..Len(live) :
        \E r \in {LinkedList_dealloc(head, mem, live[i].base, live[i].layout)} :
        \E rt \in { /\ last.op = "alloc" /\ last.tag = "Some"
                     /\ last.range.base = live[i].base /\ last.layout = live[i].layout } :
        /\ head' = r.head
        /\ mem' = r.mem
        /\ live' = RemoveAt(live, i)
        /\ status' = StatusOf(r.tag)
        /\ last' = Last("dealloc", live[i].layout, r.tag, Range(live[i].base, live[i].len),
                        IF rt THEN last.freeBefore ELSE 0,
                        IF rt THEN last.gap ELSE 0, rt)
        /\ freed' = freed \cup {live[i].layout}
    /\ UNCHANGED <<kind, overflow_checks, region, tip, allocations, donated, call>>

\* linked_list_allocator: the caller donates a region with add_free_region
LLAAddFreeRegion ==
    /\ kind = "linked_list_allocator" /\ status = "ok"
    /\ \E reg \in Regions \ donated :
        \E r \in {LLA_add_free_region(head, mem, reg)} :
        /\ head' = r.head
        /\ mem' = r.mem
        /\ donated' = donated \cup {reg}
        /\ status' = StatusOf(r.tag)
        /\ last' = Last("add_free_region", Layout(0, 1), r.tag, reg, 0, 0, FALSE)
        /\ freed' = {}
    /\ UNCHANGED <<kind, overflow_checks, region, tip, allocations, live, call>>

\* linked_list_allocator: alloc(layout)
LLAAlloc ==
    /\ kind = "linked_list_allocator" /\ status = "ok"
    /\ \E layout \in ListLayouts :
        \E r \in {LLA_alloc(head, mem, layout)} :
        /\ head' = r.head
        /\ mem' = IF r.tag = "Some" THEN Overwrite(r.mem, r.alloc) ELSE r.mem
        /\ live' = IF r.tag = "Some" THEN Insert(live, Allocation(r.alloc, layout)) ELSE live
        /\ status' = StatusOf(r.tag)
        /\ last' = [Last("alloc", layout, r.tag, r.alloc, FreeBytes(head, mem),
                         IF r.tag = "Some" THEN r.alloc.base - r.node ELSE 0, FALSE)
                    EXCEPT !.skipped = IF r.tag = "Some" THEN Skipped(head, mem, r.node) ELSE 0]
        /\ freed' = IF r.tag = "Some" THEN {} ELSE freed
    /\ UNCHANGED <<kind, overflow_checks, region, tip, allocations, donated, call>>

\* linked_list_allocator: dealloc(ptr, layout) of a live allocation with its layout
LLADealloc ==
    /\ kind = "linked_list_allocator" /\ status = "ok"
    /\ \E i \in 1..Len(live) :
        \E r \in {LLA_dealloc(head, mem, live[i].base, live[i].layout)} :
        \E rt \in { /\ last.op = "alloc" /\ last.tag = "Some"
                     /\ last.range.base = live[i].base /\ last.layout = live[i].layout } :
        /\ head' = r.head
        /\ mem' = r.mem
        /\ live' = RemoveAt(live, i)
        /\ status' = StatusOf(r.tag)
        /\ last' = Last("dealloc", live[i].layout, r.tag, Range(live[i].base, live[i].len),
                        IF rt THEN last.freeBefore ELSE 0,
                        IF rt THEN last.gap ELSE 0, rt)
        /\ freed' = freed \cup {live[i].layout}
    /\ UNCHANGED <<kind, overflow_checks, region, tip, allocations, donated, call>>

\* ptr-ext: the call try_align_up(addr, align) returns
TryAlignUp ==
    /\ call.pc = "called"
    /\ call' = Call("returned", call.addr, call.align, try_align_up(call.addr, call.align))
    /\ UNCHANGED <<kind, overflow_checks, region, tip, allocations, head, mem, donated,
                   live, status, last, freed>>

Next ==
    \/ BumpAlloc
    \/ BumpDealloc
    \/ AddFreeRegion
    \/ LinkedListAlloc
    \/ LinkedListDealloc
    \/ LLAAddFreeRegion
    \/ LLAAlloc
    \/ LLADealloc

Spec == Init /\ [][Next]_vars

\* The program that calls try_align_up once, on any address and any
\* alignment of the word.
AlignAddrs == 0..UsizeMax
AlignAligns == 0..UsizeMax

InitAlign ==
    /\ kind = "ptr_ext"
    /\ overflow_checks = FALSE
    /\ region = NoRange
    /\ tip = 0
    /\ allocations = 0
    /\ head = 0
    /\ mem = [a \in WordAddrs |-> 0]
    /\ donated = {}
    /\ live = << >>
    /\ status = "ok"
    /\ last = Last("new", Layout(0, 1), "Ok", NoRange, 0, 0, FALSE)
    /\ freed = {}
    /\ \E addr \in AlignAddrs : \E align \in AlignAligns :
          call = Call("called", addr, align, None)

NextAlign == TryAlignUp

SpecAlign == InitAlign /\ [][NextAlign]_vars

TypeOK ==
    /\ tip \in 0..UsizeMax
    /\ allocations \in 0..U64Max
    /\ head \in 0..UsizeMax
    /\ status \in {"ok", "panicked", "diverged"}

\* ------------------------------------------------------------------------
\* Properties.
IsList == kind \in {"linked_list", "linked_list_allocator"}

AllocOk == last.op = "alloc" /\ last.tag = "Some"

\* C1: no two live allocations of the same allocator (bump or linked list)
\* have a byte in common.
C1_LiveDisjoint ==
    \A i \in 1..Len(live) : \A j \in 1..Len(live) :
        i < j => ~Overlap(live[i], live[j])

\* A linked-list allocation was just carved while two others are live.
C1_Witness ==
    /\ kind = "linked_list" /\ AllocOk
    /\ Len(live) >= 3

\* C2: the base of the range a successful alloc(layout) returns is a
\* multiple of layout.align, on every allocator.
C2_BaseAligned ==
    /\ AllocOk => last.range.base % last.layout.align = 0
    /\ \A i \in 1..Len(live) : live[i].base % live[i].layout.align = 0

\* An allocation whose base had to be moved up to meet the alignment.
C2_Witness ==
    /\ IsList /\ AllocOk
    /\ last.gap > 0 /\ last.layout.align > NodeAlign

\* C3 as stated: the length of the range a successful alloc(layout) returns
\* is layout.size, on every allocator.
C3_LenIsLayoutSize == AllocOk => last.range.len = last.layout.size

\* The size of the adjusted layout, by arithmetic: the size rounded up to a
\* multiple of max(align, alignof(Node)), and at least sizeof(Node).
AdjustedSize(l) ==
    LET a == IF l.align > NodeAlign THEN l.align ELSE NodeAlign
        p == ((l.size + a - 1) \div a) * a
    IN IF p > NodeSize THEN p ELSE NodeSize

\* C3 amended: the bump allocator returns exactly layout.size bytes; the
\* linked-list allocators return the size of the adjusted layout, which is
\* never less than layout.size.
C3_LenIsAdjustedSize ==
    AllocOk =>
        /\ kind = "bump" => last.range.len = last.layout.size
        /\ IsList => /\ last.range.len = AdjustedSize(last.layout)
                     /\ last.range.len >= last.layout.size

\* A linked-list allocation for a request smaller than a Node.
C3_Witness ==
    /\ IsList /\ AllocOk
    /\ last.layout.size < NodeSize

\* C4: every byte of every live allocation is a byte of a region given to
\* the allocator (the constructor's region for bump, the donated regions for
\* the linked list), and an empty allocation lies between the region's ends.
Given == IF kind = "bump" THEN {region} ELSE donated

C4_LiveInsideDonated ==
    \A i \in 1..Len(live) :
        /\ \A x \in live[i].base..(live[i].base + live[i].len - 1) :
              \E d \in Given : d.base <= x /\ x < d.base + d.len
        /\ \E d \in Given : d.base <= live[i].base /\ live[i].base + live[i].len <= d.base + d.len

\* A bump allocation that ends exactly at the end of the region.
C4_Witness ==
    /\ kind = "bump"
    /\ \E i \in 1..Len(live) :
          live[i].len > 0 /\ live[i].base + live[i].len = region.base + region.len

\* C5: in the linked-list allocators the regions of the free list are
\* pairwise disjoint and disjoint from every live allocation.
C5_FreeDisjoint ==
    IsList =>
        /\ \A i \in 1..Len(FreeList) : \A j \in 1..Len(FreeList) :
              i < j => ~Overlap(FreeList[i], FreeList[j])
        /\ \A i \in 1..Len(FreeList) : \A j \in 1..Len(live) :
              ~Overlap(FreeList[i], live[j])

\* An alloc has just split a tail off while other free regions exist.
C5_Witness ==
    /\ IsList /\ AllocOk
    /\ Len(FreeList) >= 2
    /\ FreeList[1].base = last.range.base + last.range.len

\* C6: a bump dealloc sets tip to the region base when it brings the count
\* to zero and leaves tip alone otherwise (so what failed for lack of space
\* still fails); an alloc made at count zero starts at the region base
\* aligned up.
NoSpace(t, l) == Bump_alloc(region, t, 0, l).tag = "None"

LeastAligned(addr, align) == ((addr + align - 1) \div align) * align

C6_BumpResetLaw ==
    /\ [][(kind = "bump" /\ last'.op = "dealloc") =>
            /\ allocations' = allocations - 1
            /\ allocations' = 0 => tip' = region.base
            /\ allocations' > 0 =>
                  /\ tip' = tip
                  /\ \A l \in BumpLayouts : NoSpace(tip, l) => NoSpace(tip', l)]_vars
    /\ [][(kind = "bump" /\ allocations = 0 /\ last'.op = "alloc" /\ last'.tag = "Some") =>
            last'.range.base = LeastAligned(region.base, last'.layout.align)]_vars

\* One of two allocations filling the region has been freed: the tip stays
\* at the end of the region.
C6_Witness ==
    /\ kind = "bump" /\ last.op = "dealloc"
    /\ allocations = 1
    /\ tip = region.base + region.len

\* C7: an alloc that returns NoFit changes nothing: tip and the count of the
\* bump allocator, the free list (and the memory holding it) of the linked
\* list, and the live allocations.
C7_NoFitNoChange ==
    [][(last'.op = "alloc" /\ last'.tag = "None") =>
          /\ tip' = tip /\ allocations' = allocations
          /\ head' = head /\ mem' = mem /\ FreeList' = FreeList
          /\ live' = live /\ status' = status]_vars

\* A bump alloc refused because the counter is at its maximum.
C7_Witness ==
    /\ kind = "bump" /\ last.op = "alloc" /\ last.tag = "None"
    /\ allocations = U64Max
    /\ ~NoSpace(tip, last.layout)

\* C8 as stated: on a non-empty allocator an alloc whose size/alignment
\* arithmetic overflows returns NoFit; it never aborts.
NonEmpty == IF kind = "bump" THEN region.len > 0 ELSE donated # {}

C8_OverflowIsNoFit ==
    (last.op = "alloc" /\ NonEmpty /\ last.layout = Layout(IsizeMax, 1)) =>
        last.tag = "None"

\* C9: every region on the free list has size >= sizeof(Node) and a base
\* aligned to alignof(Node); no assertion of add_free_region fails in alloc
\* or dealloc; a successful alloc loses no tail: the free bytes drop by the
\* returned length and the head gap only.
C9_NodeInvariant ==
    IsList =>
        /\ \A i \in 1..Len(FreeList) :
              FreeList[i].len >= NodeSize /\ FreeList[i].base % NodeAlign = 0
        /\ last.tag # "Assert"
        /\ AllocOk => FreeBytes(head, mem) + last.range.len + last.gap = last.freeBefore

\* The 39-byte region has been split and a request that would leave 7 bytes
\* of its 23-byte tail has been refused.
C9_Witness ==
    /\ IsList /\ last.op = "alloc" /\ last.tag = "None"
    /\ last.layout = Layout(5, 1)
    /\ FreeList = << Range(80, 23) >>

\* C10: an alloc that carves at the base of a region (no head gap) followed
\* by the dealloc of the returned pointer with the same layout leaves as
\* many free bytes as there were before the alloc.
C10_RoundTrip ==
    (IsList /\ last.op = "dealloc" /\ last.roundtrip /\ last.gap = 0) =>
        /\ status = "ok"
        /\ FreeBytes(head, mem) = last.freeBefore

\* 24 bytes were carved at the base of the 40-byte region and freed again.
C10_Witness ==
    /\ IsList /\ last.op = "dealloc" /\ last.roundtrip /\ last.gap = 0
    /\ last.layout = Layout(24, 8) /\ last.range = Range(24, 24)

\* The adjustment of the layout succeeds (it does not abort, see C8).
Adjustable(l) == LinkedList_adjust(l).tag = "Ok"

\* Two free regions that touch: the first ends where the second begins.
Adjacent(a, b) == a.base + a.len = b.base

\* C11: the linked list never merges adjacent free regions.  A donation or
\* a dealloc adds exactly one entry and leaves every entry there was as it
\* was, also the one it touches; and an alloc whose adjusted size is larger
\* than every single entry is not served (in linked_list.rs it returns
\* NoFit), however many contiguous free bytes the entries add up to.
C11_NoCoalescing ==
    /\ [][(IsList /\ last'.op \in {"add_free_region", "dealloc"} /\ status' = "ok") =>
            /\ Len(FreeList') = Len(FreeList) + 1
            /\ \A i \in 1..Len(FreeList) : FreeList'[i + 1] = FreeList[i]]_vars
    /\ [][(/\ IsList /\ last'.op = "alloc" /\ Adjustable(last'.layout)
           /\ \A i \in 1..Len(FreeList) : FreeList[i].len < AdjustedSize(last'.layout)) =>
            /\ last'.tag # "Some"
            /\ kind = "linked_list" => last'.tag = "None"]_vars

\* The two contiguous regions are both on the free list, 79 free bytes in a
\* row, and a request of 48 bytes has just been refused.
C11_Witness ==
    /\ kind = "linked_list" /\ last.op = "alloc" /\ last.tag = "None"
    /\ last.layout = Layout(48, 8)
    /\ \E i \in 1..Len(FreeList) : \E j \in 1..Len(FreeList) :
          /\ Adjacent(FreeList[i], FreeList[j])
          /\ FreeList[i].len + FreeList[j].len >= AdjustedSize(last.layout)

\* C12 as stated: once an allocation obtained by alloc(L) has been returned
\* with dealloc(p, L), an alloc(L) succeeds as long as no alloc has succeeded
\* in between, whatever other deallocs intervene.
C12_FreedIsReusable ==
    [][(IsList /\ last'.op = "alloc" /\ last'.layout \in freed) => last'.tag = "Some"]_vars

\* The same for allocator/src/linked_list.rs alone, and for the stand-alone
\* copy in a build without overflow checks.
C12_FreedIsReusableChecked ==
    [][(/\ kind = "linked_list" \/ (kind = "linked_list_allocator" /\ ~overflow_checks)
        /\ last'.op = "alloc" /\ last'.layout \in freed) => last'.tag = "Some"]_vars

\* A power of two of the word, by its definition.
IsPowerOfTwo(n) == \E k \in 0..(WordBits - 1) : n = Pow2(k)

\* The addresses of the word from addr on that are multiples of align.
AlignedFrom(addr, align) == {a \in addr..UsizeMax : a % align = 0}

\* C13: try_align_up(addr, align) fails when align is not a power of two
\* (0 included); otherwise it returns the least address a >= addr that is a
\* multiple of align (addr itself when it is one), or fails when there is no
\* such address in the word; it never returns a wrapped address.
C13_AlignUpLaw ==
    call.pc = "returned" =>
        IF ~IsPowerOfTwo(call.align) THEN call.ret = None
        ELSE IF AlignedFrom(call.addr, call.align) = {} THEN call.ret = None
        ELSE /\ call.ret.tag = "Some"
             /\ call.ret.val \in AlignedFrom(call.addr, call.align)
             /\ \A a \in AlignedFrom(call.addr, call.align) : call.ret.val <= a

\* A call whose aligned address would lie beyond the word has failed.
C13_Witness ==
    /\ call.pc = "returned" /\ call.ret = None
    /\ call.align = NodeAlign /\ call.addr = UsizeMax

\* The alignment of the adjusted layout, by arithmetic.
AdjustedAlign(l) == IF l.align > NodeAlign THEN l.align ELSE NodeAlign

\* The free region r satisfies the conditions of alloc_from_region for the
\* request l: the aligned start and the end of the allocation exist in the
\* word, the allocation ends inside r, and what is left behind it is
\* nothing or enough for a Node.
Fits(r, l) ==
    LET start == LeastAligned(r.base, AdjustedAlign(l))
        end == start + AdjustedSize(l)
    IN /\ end <= UsizeMax
       /\ end <= r.base + r.len
       /\ r.base + r.len - end = 0 \/ r.base + r.len - end >= NodeSize

\* C14: alloc is first-fit in list order.  An alloc that returns carves
\* from the first entry that satisfies the conditions (and returns NoFit
\* exactly when none does); the entries before it are passed over and stay
\* on the list, in their order; no later entry is chosen.
C14_FirstFit ==
    [][(IsList /\ last'.op = "alloc" /\ last'.tag \in {"Some", "None"}) =>
          LET fit == {i \in 1..Len(FreeList) : Fits(FreeList[i], last'.layout)} IN
          /\ last'.tag = "None" <=> fit = {}
          /\ last'.tag = "Some" =>
                \E k \in fit :
                    /\ \A i \in fit : k <= i
                    /\ last'.range.base =
                          LeastAligned(FreeList[k].base, AdjustedAlign(last'.layout))
                    /\ \E d \in {Len(FreeList') - Len(FreeList) + 1} :
                          /\ d \in {0, 1}
                          /\ \A i \in 1..(k - 1) : FreeList'[i + d] = FreeList[i]]_vars

\* An allocation was carved from an entry behind the first one: the search
\* passed over an entry that did not satisfy the conditions.
C14_Witness ==
    /\ kind = "linked_list" /\ AllocOk
    /\ last.skipped > 0

\* C15: a successful alloc that carves [start, end) from the entry r takes r
\* off the list; when bytes of r are left behind end it puts exactly one new
\* entry [end, end + excess) at the front, and when none are left it puts
\* nothing; every other entry keeps its size and its place among the others.
C15_TailSplit ==
    [][(IsList /\ last'.op = "alloc" /\ last'.tag = "Some") =>
          \E k \in 1..Len(FreeList) :
            \E end \in {last'.range.base + last'.range.len} :
              /\ FreeList[k].base <= last'.range.base
              /\ end <= FreeList[k].base + FreeList[k].len
              /\ \E excess \in {FreeList[k].base + FreeList[k].len - end} :
                    FreeList' = (IF excess > 0 THEN << Range(end, excess) >> ELSE << >>)
                                    \o RemoveAt(FreeList, k)]_vars

\* An entry behind two others has been split: its tail is the first entry
\* and the two others follow it.
C15_Witness ==
    /\ kind = "linked_list" /\ AllocOk
    /\ last.skipped = 2 /\ Len(FreeList) = 3
    /\ FreeList[1].base = last.range.base + last.range.len

\* C16 as stated: an alloc that leaves a head gap (the aligned start lies
\* above the base of the region) followed by the matching dealloc leaves as
\* many free bytes as there were before the alloc.
C16_HeadGapRestored ==
    (IsList /\ last.op = "dealloc" /\ last.roundtrip /\ last.gap > 0) =>
        FreeBytes(head, mem) = last.freeBefore

\* What the code does: after that dealloc the free bytes are fewer by the
\* head gap, which is on no entry of the list and in no live allocation.
C16_HeadGapLost ==
    (IsList /\ last.op = "dealloc" /\ last.roundtrip /\ last.gap > 0) =>
        FreeBytes(head, mem) = last.freeBefore - last.gap

\* C17: add_free_region(range) makes range the first entry of the list,
\* with size range.len; dealloc(p, L) makes [p, p + adjusted size of L) the
\* first entry; either leaves the entries there were behind it, unchanged
\* and in their order.  Hence an alloc(L) right after dealloc(p, L) returns
\* the range based at p.
C17_PushToFront ==
    /\ [][(IsList /\ last'.op = "add_free_region" /\ status' = "ok") =>
            FreeList' = << last'.range >> \o FreeList]_vars
    /\ [][(IsList /\ last'.op = "dealloc" /\ status' = "ok") =>
            FreeList' = << Range(last'.range.base, AdjustedSize(last'.layout)) >> \o FreeList]_vars
    /\ [][(IsList /\ last.op = "dealloc" /\ last'.op = "alloc" /\ last'.layout = last.layout) =>
            /\ last'.tag = "Some"
            /\ last'.range.base = last.range.base]_vars

\* A request smaller than a Node has been freed while other entries are on
\* the list: its 16 bytes are the first entry.
C17_Witness ==
    /\ kind = "linked_list" /\ last.op = "dealloc" /\ status = "ok"
    /\ last.layout.size < NodeSize
    /\ Len(FreeList) >= 3
    /\ FreeList[1] = Range(last.range.base, NodeSize)

\* C18: in the bump allocator tip stays between the base and the end of the
\* region, and the count of outstanding allocations is the number of live
\* allocations: it is never negative, never wraps below zero on the dealloc
\* of a live allocation, and no such dealloc aborts.
C18_BumpBounds ==
    kind = "bump" =>
        /\ region.base <= tip /\ tip <= region.base + region.len
        /\ allocations >= 0 /\ allocations <= U64Max
        /\ allocations = Len(live)
        /\ status = "ok"

\* Two allocations fill the region to its end and a third has been refused.
C18_Witness ==
    /\ kind = "bump" /\ last.op = "alloc" /\ last.tag = "None"
    /\ tip = region.base + region.len
    /\ allocations = 2 /\ last.layout.size > 0

\* C19 as stated: a successful bump alloc of size 0 leaves tip where it was,
\* for any alignment and any tip, and increments the count by one.
C19_ZeroSizeKeepsTip ==
    [][(/\ kind = "bump" /\ last'.op = "alloc" /\ last'.tag = "Some"
        /\ last'.layout.size = 0) =>
            /\ tip' = tip
            /\ allocations' = allocations + 1]_vars

\* C19 amended: a successful bump alloc of size 0 moves tip up to the next
\* multiple of layout.align (it stays when tip is one already, and moves by
\* less than layout.align otherwise), returns the empty range at the new
\* tip, and increments the count by one.
C19_ZeroSizeAlignsTip ==
    [][(/\ kind = "bump" /\ last'.op = "alloc" /\ last'.tag = "Some"
        /\ last'.layout.size = 0) =>
            /\ tip' = LeastAligned(tip, last'.layout.align)
            /\ tip' - tip < last'.layout.align
            /\ tip % last'.layout.align = 0 => tip' = tip
            /\ last'.range = Range(tip', 0)
            /\ allocations' = allocations + 1]_vars

\* A zero-sized allocation was made at a tip that was not aligned: the tip
\* has moved.
C19_Witness ==
    /\ kind = "bump" /\ AllocOk
    /\ last.layout.size = 0 /\ last.gap > 0

\* C20: the chain from head.next is finite and acyclic and ends at None: no
\* Node is on it twice.  So the search of alloc visits each entry at most
\* once and terminates; in linked_list.rs, once the layout is adjusted, it
\* returns a range or NoFit.
C20_ListTerminates ==
    IsList =>
        /\ Len(FreeList) <= MaxNodes
        /\ \A i \in 1..Len(FreeList) : \A j \in 1..Len(FreeList) :
              i < j => FreeList[i].base # FreeList[j].base
        /\ last.tag # "Diverge" /\ status # "diverged"
        /\ AllocOk => last.skipped <= Len(FreeList)
        /\ (kind = "linked_list" /\ last.op = "alloc" /\ Adjustable(last.layout)) =>
              last.tag \in {"Some", "None"}

\* A search has walked a list of three entries to its end and returned
\* NoFit.
C20_Witness ==
    /\ kind = "linked_list" /\ last.op = "alloc" /\ last.tag = "None"
    /\ Len(FreeList) = 3 /\ Adjustable(last.layout)

====
